---- MODULE Spec2Model ----
(***************************************************************************)
(* CabinFlix catalog query endpoint, GET /api/movies                       *)
(* (src/src/app/api/movies/route.ts), over the tables of                   *)
(* src/supabase/init.sql, and trailer endpoint, GET /api/trailer           *)
(* (src/src/app/api/trailer/route.ts).                                     *)
(*                                                                         *)
(* Spec: one invocation at a time, requests drawn from SearchRequests.      *)
(* SpecPaging: a caller that pages through the unfiltered catalog and      *)
(* keeps the pages it is sent.                                             *)
(* SpecLoose: requests with missing, empty or non-numeric parameters on a  *)
(* store that is up.                                                       *)
(* SpecServer: both endpoints, with the errors their calls may throw.      *)
(* SpecGrid: the page's MovieGrid (src/src/components/MovieCard.tsx) under *)
(* filter changes, scrolling and responses in any order.                   *)
(* SpecScroll: MovieGrid scrolled to the end under fixed filters.          *)
(* SpecFilters: SearchBar, FilterSidebar and the HomePage handlers with    *)
(* their debounce timers.                                                  *)
(*                                                                         *)
(* Strings are sequences of one-character strings, so that split, parseInt *)
(* and ILIKE are computed character by character.  A nullable column or a  *)
(* missing search parameter is <<>> (Null) or <<v>> (Some(v)).             *)
(***************************************************************************)
EXTENDS Integers, Sequences, FiniteSets, TLC

VARIABLES
    movies,        \* table movies: id -> row
    movie_genres,  \* table movie_genres: set of <<movie_id, genre_id>>
    searchParams,  \* the request's raw search parameters
    pc,            \* where the handler is: idle, probe, count, page, done
    query, genres, ratings, yearMin, yearMax, limit, offset,
    sql, countSql, \* the two statements under construction
    params,        \* the bound values, params[k] is $k
    paramIndex,    \* the next placeholder number
    total,
    response,      \* [status, body]
    calls,         \* the pool.query calls of this request, in order
    delivered,     \* request/response pairs a paging client has collected
    logged,        \* what the running invocation wrote with console.error
    tpc,           \* where the trailer handler is: idle, fetch, done
    tmdbId,        \* the trailer request's tmdbId parameter
    tmdbApiKey,    \* process.env.TMDB_API_KEY as the trailer handler read it
    fetched,       \* the fetch calls of the trailer request, in order
    trailerResponse, \* [status, body]
    searchQuery, selectedGenres, selectedRatings, yearRange, \* HomePage state
    showFilters,   \* HomePage: the filter panel is open
    gridMovies,    \* MovieGrid: the displayed list (state movies)
    loading, loadingMore, hasMore, currentPage,
    gridTotal,     \* MovieGrid: state total
    inFlight,      \* MovieGrid: the fetchMovies calls awaiting their response
    fetchCount,    \* MovieGrid: requests sent since the filters last changed
    lastEvent,     \* MovieGrid: what the last step of the grid was
    localValue,    \* SearchBar: the text of the input
    searchTimer,   \* SearchBar: the pending debounce timer, if any
    localYearRange, yearInputs, \* FilterSidebar state
    debounceRef,   \* FilterSidebar: debounceRef.current
    timers,        \* FilterSidebar: the pending timers, each [id, range]
    lastEdit,      \* the last year edit of the open panel: its range, and
                   \* whether it is the first of its burst (edits = 1)
    emitted,       \* the calls of onYearRangeChange since the burst began
    cleared        \* which clear ran with no user input since: "none",
                   \* "filters" (clearFilters) or "title" (handleTitleClick)

dbVars == <<movies, movie_genres>>
parsedVars == <<query, genres, ratings, yearMin, yearMax, limit, offset>>
stmtVars == <<sql, countSql, params, paramIndex>>
vars == <<movies, movie_genres, searchParams, pc, query, genres, ratings,
          yearMin, yearMax, limit, offset, sql, countSql, params, paramIndex,
          total, response, calls, delivered, logged,
          tpc, tmdbId, tmdbApiKey, fetched, trailerResponse,
          searchQuery, selectedGenres, selectedRatings, yearRange, showFilters,
          gridMovies, loading, loadingMore, hasMore, currentPage, gridTotal,
          inFlight, fetchCount, lastEvent,
          localValue, searchTimer, localYearRange, yearInputs, debounceRef,
          timers, lastEdit, emitted, cleared>>
trailerVars == <<tpc, tmdbId, tmdbApiKey, fetched, trailerResponse>>
homeVars == <<searchQuery, selectedGenres, selectedRatings, yearRange, showFilters>>
gridVars == <<gridMovies, loading, loadingMore, hasMore, currentPage, gridTotal,
              inFlight, fetchCount, lastEvent>>
searchBarVars == <<localValue, searchTimer>>
sidebarVars == <<localYearRange, yearInputs, debounceRef, timers, lastEdit, emitted>>
clientVars == <<homeVars, gridVars, searchBarVars, sidebarVars, cleared>>

----------------------------------------------------------------------------
\* Bounds of the model.

MaxMovies == 3
MaxDelivered == 3

----------------------------------------------------------------------------
\* Nullable values.

Null == <<>>
Some(v) == <<v>>
IsNull(o) == o = <<>>
Val(o) == o[1]

\* A number or NaN (what parseInt returns).
NaN == <<>>
Num(n) == <<n>>
IsNaN(x) == x = <<>>

----------------------------------------------------------------------------
\* Characters and strings.

\* The characters of the model in code point order.
Alphabet ==
    << " ", "%", ",", "-", "0", "1", "2", "3", "4", "5", "6", "7", "8", "9",
       "A", "B", "D", "G", "P", "R", "\\", "_",
       "a", "b", "c", "i", "m", "n", "o", "r", "t" >>

CharRank(c) == CHOOSE i \in 1..Len(Alphabet) : Alphabet[i] = c

Lower(c) ==
    CASE c = "A" -> "a"
      [] c = "B" -> "b"
      [] c = "D" -> "d"
      [] c = "G" -> "g"
      [] c = "P" -> "p"
      [] c = "R" -> "r"
      [] OTHER -> c

LowerStr(s) == [i \in 1..Len(s) |-> Lower(s[i])]

RECURSIVE StrLess(_, _)
StrLess(a, b) ==
    IF b = <<>> THEN FALSE
    ELSE IF a = <<>> THEN TRUE
    ELSE IF a[1] = b[1] THEN StrLess(Tail(a), Tail(b))
    ELSE CharRank(a[1]) < CharRank(b[1])

StrLeq(a, b) == a = b \/ StrLess(a, b)

\* String.prototype.split(sep) for a one-character separator: ''.split(',')
\* is [''].
RECURSIVE SplitFrom(_, _, _)
SplitFrom(s, sep, cur) ==
    IF s = <<>> THEN <<cur>>
    ELSE IF s[1] = sep THEN <<cur>> \o SplitFrom(Tail(s), sep, <<>>)
    ELSE SplitFrom(Tail(s), sep, Append(cur, s[1]))

Split(s, sep) == SplitFrom(s, sep, <<>>)

Digits == <<"0", "1", "2", "3", "4", "5", "6", "7", "8", "9">>
IsDigit(c) == \E i \in 1..Len(Digits) : Digits[i] = c
DigitVal(c) == (CHOOSE i \in 1..Len(Digits) : Digits[i] = c) - 1

RECURSIVE DigitPrefix(_, _, _)
DigitPrefix(s, acc, seen) ==
    IF s # <<>> /\ IsDigit(s[1])
    THEN DigitPrefix(Tail(s), acc * 10 + DigitVal(s[1]), TRUE)
    ELSE IF seen THEN Num(acc) ELSE NaN

RECURSIVE SkipSpaces(_)
SkipSpaces(s) == IF s # <<>> /\ s[1] = " " THEN SkipSpaces(Tail(s)) ELSE s

\* parseInt(s), radix 10: leading blanks, an optional sign, the longest digit
\* prefix; NaN when there is no digit.
ParseInt(s) ==
    LET t == SkipSpaces(s) IN
    IF t # <<>> /\ t[1] = "-"
    THEN LET d == DigitPrefix(Tail(t), 0, FALSE) IN
         IF IsNaN(d) THEN NaN ELSE Num(0 - Val(d))
    ELSE IF t # <<>> /\ t[1] = "+" THEN DigitPrefix(Tail(t), 0, FALSE)
    ELSE DigitPrefix(t, 0, FALSE)

\* PostgreSQL LIKE: % is any run of characters, _ any one character, a
\* backslash takes the next pattern character literally.
RECURSIVE LikeMatch(_, _)
LikeMatch(p, s) ==
    IF p = <<>> THEN s = <<>>
    ELSE IF p[1] = "%"
         THEN LikeMatch(Tail(p), s) \/ (s # <<>> /\ LikeMatch(p, Tail(s)))
    ELSE IF p[1] = "_"
         THEN s # <<>> /\ LikeMatch(Tail(p), Tail(s))
    ELSE IF p[1] = "\\" /\ Len(p) > 1
         THEN s # <<>> /\ s[1] = p[2] /\ LikeMatch(Tail(Tail(p)), Tail(s))
    ELSE s # <<>> /\ s[1] = p[1] /\ LikeMatch(Tail(p), Tail(s))

\* column ILIKE pattern; NULL ILIKE pattern is NULL, which a WHERE rejects.
ILike(col, pattern) ==
    ~IsNull(col) /\ LikeMatch(LowerStr(pattern), LowerStr(Val(col)))

----------------------------------------------------------------------------
\* The tables.

sAction == <<"A", "c", "t", "i", "o", "n">>
sDrama == <<"D", "r", "a", "m", "a">>
sPG == <<"P", "G">>
sR == <<"R">>

\* Table genres: two of the seeded rows (their ids are the insertion order).
genresTable == { [id |-> 1, name |-> sAction], [id |-> 7, name |-> sDrama] }

\* A row of table movies.  release_date holds the year of the date, the only
\* part the endpoint reads.
MovieRow(id, r) ==
    [ id |-> id, title |-> r.title, tmdb_id |-> r.tmdb_id,
      release_date |-> r.release_date, overview |-> r.overview,
      poster_path |-> r.poster_path, vote_average |-> r.vote_average,
      popularity |-> r.popularity, rating |-> r.rating ]

\* The rows a catalog of the model is drawn from, with the genre ids of each.
SampleRows ==
    << [ title |-> <<"a">>, overview |-> Null, tmdb_id |-> Null,
         release_date |-> Null, popularity |-> Null, vote_average |-> Null,
         rating |-> Null, poster_path |-> Null, genre_ids |-> {} ],
       [ title |-> <<"A", "b">>, overview |-> Some(<<"b">>), tmdb_id |-> Some(11),
         release_date |-> Some(2005), popularity |-> Some(2), vote_average |-> Some(7),
         rating |-> Some(sPG), poster_path |-> Some(<<"a">>), genre_ids |-> {1, 7} ],
       [ title |-> <<"b">>, overview |-> Some(<<"a">>), tmdb_id |-> Some(12),
         release_date |-> Some(1999), popularity |-> Some(2), vote_average |-> Some(5),
         rating |-> Some(sR), poster_path |-> Null, genre_ids |-> {7} ],
       [ title |-> <<"B">>, overview |-> Null, tmdb_id |-> Some(13),
         release_date |-> Some(2005), popularity |-> Some(1), vote_average |-> Null,
         rating |-> Some(sPG), poster_path |-> Null, genre_ids |-> {1} ],
       [ title |-> <<"a">>, overview |-> Null, tmdb_id |-> Null,
         release_date |-> Some(2005), popularity |-> Null, vote_average |-> Null,
         rating |-> Some(sR), poster_path |-> Null, genre_ids |-> {1} ],
       [ title |-> <<"a", "b">>, overview |-> Null, tmdb_id |-> Some(14),
         release_date |-> Null, popularity |-> Null, vote_average |-> Some(7),
         rating |-> Some(sR), poster_path |-> Null, genre_ids |-> {1, 7} ],
       [ title |-> <<"b">>, overview |-> Null, tmdb_id |-> Some(15),
         release_date |-> Some(2005), popularity |-> Some(2), vote_average |-> Some(7),
         rating |-> Null, poster_path |-> Null, genre_ids |-> {} ],
       [ title |-> <<"A", "b">>, overview |-> Null, tmdb_id |-> Some(16),
         release_date |-> Some(1999), popularity |-> Some(2), vote_average |-> Some(7),
         rating |-> Some(sPG), poster_path |-> Null, genre_ids |-> {7} ],
       [ title |-> <<"c">>, overview |-> Null, tmdb_id |-> Some(17),
         release_date |-> Some(2025), popularity |-> Some(1), vote_average |-> Some(5),
         rating |-> Some(sR), poster_path |-> Null, genre_ids |-> {7} ] >>

\* movies.tmdb_id is UNIQUE.
TmdbUnique(ms) ==
    \A i, j \in DOMAIN ms :
        (i # j /\ ~IsNull(ms[i].tmdb_id)) => ms[i].tmdb_id # ms[j].tmdb_id

\* The catalogs of the model: up to MaxMovies sample rows under the serial ids
\* 1..n.  Rows are taken in non-decreasing order: the endpoint reads no id, so
\* a catalog and its renumbering answer alike.
CatalogPicks ==
    UNION { { f \in [1..n -> 1..Len(SampleRows)] :
                \A i \in 1..n : \A j \in 1..n : i < j => f[i] <= f[j] } :
            n \in 0..MaxMovies }

MoviesOf(pick) == [id \in DOMAIN pick |-> MovieRow(id, SampleRows[pick[id]])]

LinksOf(pick) ==
    UNION { { <<id, gid>> : gid \in SampleRows[pick[id]].genre_ids } :
            id \in DOMAIN pick }

----------------------------------------------------------------------------
\* What PostgreSQL computes for the two statements.

\* FROM movies m LEFT JOIN movie_genres mg ON m.id = mg.movie_id
\*               LEFT JOIN genres g ON mg.genre_id = g.id
\* one row per (movie, genre) link, and one row with g NULL for a movie without.
JoinedRows(ms, mgs) ==
    UNION { LET links == { mg \in mgs : mg[1] = ms[id].id } IN
            IF links = {}
            THEN { [m |-> ms[id], g |-> Null] }
            ELSE UNION { LET gs == { g \in genresTable : g.id = mg[2] } IN
                         IF gs = {}
                         THEN { [m |-> ms[id], g |-> Null] }
                         ELSE { [m |-> ms[id], g |-> Some(g)] : g \in gs } :
                         mg \in links } :
            id \in DOMAIN ms }

\* numeric comparison with a bound value that may be NaN: PostgreSQL orders NaN
\* above every number.
NumGeq(a, b) == IF IsNaN(b) THEN FALSE ELSE a >= Val(b)
NumLeq(a, b) == IF IsNaN(b) THEN TRUE ELSE a <= Val(b)

\* The conditions of the WHERE clause on one joined row; at holds the
\* placeholder numbers the condition was written with.  A comparison with NULL
\* is NULL and the conditions are only joined by AND and OR, so NULL reads as
\* false.

\* (m.title ILIKE $k OR m.overview ILIKE $k)
SearchCond(at, ps, row) ==
    \/ ILike(Some(row.m.title), ps[at[1]])
    \/ ILike(row.m.overview, ps[at[2]])

\* Mutant of GenreCond: the row must carry every listed genre.
GenreCond_All(at, ps, row) ==
    /\ ~IsNull(row.g)
    /\ \A i \in 1..Len(at) : Val(row.g).name = ps[at[i]]

\* g.name IN ($k, ...)
GenreCond(at, ps, row) ==
    /\ ~IsNull(row.g)
    /\ \E i \in 1..Len(at) : Val(row.g).name = ps[at[i]]

\* m.rating IN ($k, ...)
RatingCond(at, ps, row) ==
    /\ ~IsNull(row.m.rating)
    /\ \E i \in 1..Len(at) : Val(row.m.rating) = ps[at[i]]

\* Mutant of YearMinCond: a null release date does not pass.
YearMinCond_NoNull(at, ps, row) ==
    /\ ~IsNull(row.m.release_date)
    /\ NumGeq(Val(row.m.release_date), ps[at[1]])

\* (m.release_date IS NULL OR EXTRACT(YEAR FROM m.release_date) >= $k)
YearMinCond(at, ps, row) ==
    \/ IsNull(row.m.release_date)
    \/ NumGeq(Val(row.m.release_date), ps[at[1]])

\* (m.release_date IS NULL OR EXTRACT(YEAR FROM m.release_date) <= $k)
YearMaxCond(at, ps, row) ==
    \/ IsNull(row.m.release_date)
    \/ NumLeq(Val(row.m.release_date), ps[at[1]])

EvalCond(cond, ps, row) ==
    CASE cond.kind = "search" -> SearchCond(cond.at, ps, row)
      [] cond.kind = "genre" -> GenreCond(cond.at, ps, row)
      [] cond.kind = "rating" -> RatingCond(cond.at, ps, row)
      [] cond.kind = "yearMin" -> YearMinCond(cond.at, ps, row)
      [] cond.kind = "yearMax" -> YearMaxCond(cond.at, ps, row)

\* Mutant of Where: the conditions joined by OR.
Where_AnyCond(conds, ps, row) == \E i \in 1..Len(conds) : EvalCond(conds[i], ps, row)

\* WHERE 1=1 AND cond AND cond ...
Where(conds, ps, row) == \A i \in 1..Len(conds) : EvalCond(conds[i], ps, row)

SelectedRows(conds, ps, ms, mgs) ==
    { row \in JoinedRows(ms, mgs) : Where(conds, ps, row) }

\* Mutant of ExecCount: COUNT(*) over the joined rows.
ExecCount_JoinedRows(stmt, ps, ms, mgs) ==
    Cardinality(SelectedRows(stmt.conds, ps, ms, mgs))

\* SELECT COUNT(DISTINCT m.id)
ExecCount(stmt, ps, ms, mgs) ==
    Cardinality({ row.m.id : row \in SelectedRows(stmt.conds, ps, ms, mgs) })

\* The sequences that list the set S once each.
Listings(S) ==
    { f \in [1..Cardinality(S) -> S] : \A i, j \in DOMAIN f : i # j => f[i] # f[j] }

\* ARRAY_AGG(DISTINCT g.name) FILTER (WHERE g.name IS NOT NULL) over the
\* selected rows of one movie: DISTINCT aggregation yields the names sorted;
\* no name at all yields NULL.
AggGenres(rows) ==
    LET names == { Val(row.g).name : row \in { r \in rows : ~IsNull(r.g) } } IN
    IF names = {} THEN Null
    ELSE Some(CHOOSE s \in Listings(names) :
                  \A i, j \in DOMAIN s : i < j => StrLess(s[i], s[j]))

\* Mutant of GroupedRows: no grouping, one result row per selected joined row.
GroupedRows_PerJoinedRow(conds, ps, ms, mgs) ==
    { [m |-> row.m, genres |-> AggGenres({row})] :
      row \in SelectedRows(conds, ps, ms, mgs) }

\* GROUP BY m.id, ...: one result row per movie that has a selected row.
GroupedRows(conds, ps, ms, mgs) ==
    LET sel == SelectedRows(conds, ps, ms, mgs) IN
    { [m |-> ms[id], genres |-> AggGenres({ row \in sel : row.m.id = id })] :
      id \in { row.m.id : row \in sel } }

\* Mutant of CmpDescNullsLast: x DESC with the default NULLS FIRST.
CmpDescNullsFirst(a, b) ==
    IF IsNull(a) THEN (IF IsNull(b) THEN 0 ELSE 0 - 1)
    ELSE IF IsNull(b) THEN 1
    ELSE IF Val(a) > Val(b) THEN 0 - 1
    ELSE IF Val(a) < Val(b) THEN 1
    ELSE 0

\* x DESC NULLS LAST: -1 when a sorts before b, 1 when after, 0 when equal.
CmpDescNullsLast(a, b) ==
    IF IsNull(a) THEN (IF IsNull(b) THEN 0 ELSE 1)
    ELSE IF IsNull(b) THEN 0 - 1
    ELSE IF Val(a) > Val(b) THEN 0 - 1
    ELSE IF Val(a) < Val(b) THEN 1
    ELSE 0

\* CASE WHEN m.tmdb_id IS NOT NULL THEN 0 ELSE 1 END
EnrichedKey(m) == IF ~IsNull(m.tmdb_id) THEN 0 ELSE 1

\* ORDER BY of the page statement: a strictly before b.
SortsBefore(a, b) ==
    \/ EnrichedKey(a.m) < EnrichedKey(b.m)
    \/ /\ EnrichedKey(a.m) = EnrichedKey(b.m)
       /\ \/ CmpDescNullsLast(a.m.popularity, b.m.popularity) < 0
          \/ /\ CmpDescNullsLast(a.m.popularity, b.m.popularity) = 0
             /\ \/ CmpDescNullsLast(a.m.vote_average, b.m.vote_average) < 0
                \/ /\ CmpDescNullsLast(a.m.vote_average, b.m.vote_average) = 0
                   /\ StrLess(a.m.title, b.m.title)

\* LIMIT lim OFFSET off
Slice(s, lim, off) ==
    LET last == IF off + lim < Len(s) THEN off + lim ELSE Len(s) IN
    SubSeq(s, off + 1, last)

\* The orders ORDER BY may give the grouped rows: rows it leaves equal come in
\* any order, chosen anew by each execution.
SortedListings(rows) ==
    { ord \in Listings(rows) :
        \A i, j \in DOMAIN ord : i < j => ~SortsBefore(ord[j], ord[i]) }

\* LIMIT $k OFFSET $k+1 take a bigint: NaN is no bigint (invalid input syntax)
\* and a negative value is refused (LIMIT / OFFSET must not be negative), so the
\* statement raises an error instead of returning rows.
WindowRejected(lim, off) ==
    IF IsNaN(lim) \/ IsNaN(off) THEN TRUE ELSE (Val(lim) < 0 \/ Val(off) < 0)

\* The row sequences the page statement may return.
ExecPage(stmt, ps, ms, mgs) ==
    { Slice(ord, Val(ps[Val(stmt.page).limitAt]), Val(ps[Val(stmt.page).offsetAt])) :
      ord \in SortedListings(GroupedRows(stmt.conds, ps, ms, mgs)) }

----------------------------------------------------------------------------
\* The handler GET.

s1900 == <<"1", "9", "0", "0">>
s2024 == <<"2", "0", "2", "4">>
s1000 == <<"1", "0", "0", "0">>
s0 == <<"0">>

\* searchParams.get(name) || dflt: a missing or an empty value gives dflt.
OrDefault(param, dflt) ==
    IF IsNull(param) \/ Val(param) = <<>> THEN dflt ELSE Val(param)

\* searchParams.get(name)?.split(',') || []
SplitOrEmpty(param) == IF IsNull(param) THEN <<>> ELSE Split(Val(param), ",")

\* No search parameter at all.
NoParams ==
    [ q |-> Null, genres |-> Null, ratings |-> Null, yearMin |-> Null,
      yearMax |-> Null, limit |-> Null, offset |-> Null ]

NoResponse == [status |-> 0, body |-> [movies |-> <<>>, total |-> 0]]

\* A statement and its bound values while the clauses are added.
EmptyBuild == [conds |-> <<>>, params |-> <<>>, paramIndex |-> 1]

\* if (query) { ... m.title ILIKE $k OR m.overview ILIKE $k ... }
AddSearch(b, q) ==
    IF q # <<>>
    THEN [ conds |-> Append(b.conds, [kind |-> "search",
                                      at |-> <<b.paramIndex, b.paramIndex>>]),
           params |-> Append(b.params, <<"%">> \o q \o <<"%">>),
           paramIndex |-> b.paramIndex + 1 ]
    ELSE b

\* Mutant of InList: paramIndex is not advanced past the list.
InList_IndexNotAdvanced(b, kind, values) ==
    IF Len(values) > 0
    THEN [ conds |-> Append(b.conds,
                            [kind |-> kind,
                             at |-> [i \in 1..Len(values) |-> b.paramIndex + i - 1]]),
           params |-> b.params \o values,
           paramIndex |-> b.paramIndex + 1 ]
    ELSE b

\* The placeholders of an IN list: values.map(() => `$${paramIndex++}`)
InList(b, kind, values) ==
    IF Len(values) > 0
    THEN [ conds |-> Append(b.conds,
                            [kind |-> kind,
                             at |-> [i \in 1..Len(values) |-> b.paramIndex + i - 1]]),
           params |-> b.params \o values,
           paramIndex |-> b.paramIndex + Len(values) ]
    ELSE b

\* if (genres.length > 0) { ... g.name IN (...) ... }
AddGenres(b, gs) == InList(b, "genre", gs)

\* if (ratings.length > 0) { ... m.rating IN (...) ... }
AddRatings(b, rs) == InList(b, "rating", rs)

\* AND (m.release_date IS NULL OR EXTRACT(YEAR FROM m.release_date) >= $k),
\* and the same with <=; the value bound is parseInt of the parameter.
AddYear(b, kind, year) ==
    [ conds |-> Append(b.conds, [kind |-> kind, at |-> <<b.paramIndex>>]),
      params |-> Append(b.params, ParseInt(year)),
      paramIndex |-> b.paramIndex + 1 ]

\* The WHERE clause both statements receive.
BuildWhere(q, gs, rs, ymin, ymax) ==
    AddYear(AddYear(AddRatings(AddGenres(AddSearch(EmptyBuild, q), gs), rs),
                    "yearMin", ymin),
            "yearMax", ymax)

\* One row of the result as the response gives it.
ResponseMovie(row) ==
    [ id |-> row.m.id, title |-> row.m.title, tmdbId |-> row.m.tmdb_id,
      releaseDate |-> row.m.release_date, overview |-> row.m.overview,
      posterPath |-> row.m.poster_path, voteAverage |-> row.m.vote_average,
      popularity |-> row.m.popularity, rating |-> row.m.rating,
      genres |-> IF IsNull(row.genres) THEN <<>> ELSE Val(row.genres) ]

\* What a rejected pool.query throws: the store cannot be reached, or it refuses
\* the statement.
PgErrors == { "connect ECONNREFUSED", "invalid input syntax for type bigint" }

NoTrailerResponse == [status |-> 0, body |-> [trailerUrl |-> Null, found |-> FALSE]]

ProbeFailure ==
    [ status |-> 500,
      body |-> [ error |-> "Database connection failed", movies |-> <<>>, total |-> 0 ] ]

\* Mutant of CaughtFailure: the status option is left out.
CaughtFailure_Status200 ==
    [ status |-> 200,
      body |-> [ error |-> "Internal server error", movies |-> <<>>, total |-> 0 ] ]

CaughtFailure ==
    [ status |-> 500,
      body |-> [ error |-> "Internal server error", movies |-> <<>>, total |-> 0 ] ]

Success(ms, n, lim) ==
    [ status |-> 200,
      body |-> [ movies |-> ms, total |-> n, hasMore |-> Num(Len(ms)) = lim ] ]

\* await pool.query(...): the call is recorded when it is issued and its outcome
\* when it settles.
Issue(cs, stmt) == Append(cs, [stmt |-> stmt, result |-> "pending"])
Settle(cs, result) == [cs EXCEPT ![Len(cs)].result = result]

\* A request arrives: the parameters are read and the connectivity probe is
\* issued.
Request(sp) ==
    /\ pc = "idle"
    /\ searchParams' = sp
    /\ query' = OrDefault(sp.q, <<>>)
    /\ genres' = SplitOrEmpty(sp.genres)
    /\ ratings' = SplitOrEmpty(sp.ratings)
    /\ yearMin' = OrDefault(sp.yearMin, s1900)
    /\ yearMax' = OrDefault(sp.yearMax, s2024)
    /\ limit' = ParseInt(OrDefault(sp.limit, s1000))
    /\ offset' = ParseInt(OrDefault(sp.offset, s0))
    /\ sql' = [conds |-> <<>>, page |-> Null]
    /\ countSql' = [conds |-> <<>>]
    /\ params' = <<>>
    /\ paramIndex' = 1
    /\ total' = 0
    /\ response' = NoResponse
    /\ calls' = Issue(<<>>, "probe")
    /\ pc' = "probe"
    /\ UNCHANGED <<dbVars, delivered, logged, trailerVars, clientVars>>

\* The probe succeeds: both statements get the WHERE clause and the count
\* statement is issued with the values bound so far.
ProbeOk ==
    /\ pc = "probe"
    /\ LET b == BuildWhere(query, genres, ratings, yearMin, yearMax) IN
       /\ sql' = [conds |-> b.conds, page |-> Null]
       /\ countSql' = [conds |-> b.conds]
       /\ params' = b.params
       /\ paramIndex' = b.paramIndex
    /\ calls' = Issue(Settle(calls, "ok"), "count")
    /\ pc' = "count"
    /\ UNCHANGED <<dbVars, searchParams, parsedVars, total, response, delivered,
                   logged, trailerVars, clientVars>>

\* The probe fails: the inner catch answers.
ProbeFail ==
    /\ pc = "probe"
    /\ response' = ProbeFailure
    /\ pc' = "done"
    /\ calls' = Settle(calls, "error")
    /\ \E e \in PgErrors : logged' = Append(logged, <<"Database connection failed:", e>>)
    /\ UNCHANGED <<dbVars, searchParams, parsedVars, stmtVars, total, delivered,
                   trailerVars, clientVars>>

\* The count statement returns: total is read, ORDER BY, LIMIT and OFFSET are
\* added to the page statement, and it is issued.
CountOk ==
    /\ pc = "count"
    /\ total' = ExecCount(countSql, params, movies, movie_genres)
    /\ sql' = [sql EXCEPT !.page = Some([limitAt |-> paramIndex,
                                         offsetAt |-> paramIndex + 1])]
    /\ params' = params \o <<limit, offset>>
    /\ calls' = Issue(Settle(calls, "ok"), "page")
    /\ pc' = "page"
    /\ UNCHANGED <<dbVars, searchParams, parsedVars, countSql, paramIndex,
                   response, delivered, logged, trailerVars, clientVars>>

\* Mutant of CountFail: a failed count statement is issued once more.
CountFail_Retry ==
    /\ pc = "count"
    /\ IF Len(calls) < 3
       THEN /\ calls' = Issue(Settle(calls, "error"), "count")
            /\ UNCHANGED <<pc, response, logged>>
       ELSE /\ response' = CaughtFailure
            /\ pc' = "done"
            /\ calls' = Settle(calls, "error")
            /\ \E e \in PgErrors : logged' = Append(logged, <<"API Error:", e>>)
    /\ UNCHANGED <<dbVars, searchParams, parsedVars, stmtVars, total, delivered,
                   trailerVars, clientVars>>

\* The count statement fails: the outer catch answers.
CountFail ==
    /\ pc = "count"
    /\ response' = CaughtFailure
    /\ pc' = "done"
    /\ calls' = Settle(calls, "error")
    /\ \E e \in PgErrors : logged' = Append(logged, <<"API Error:", e>>)
    /\ UNCHANGED <<dbVars, searchParams, parsedVars, stmtVars, total, delivered,
                   trailerVars, clientVars>>

\* The page statement returns: the rows are mapped and the response is sent.
PageOk ==
    /\ pc = "page"
    /\ ~WindowRejected(limit, offset)
    /\ \E rows \in ExecPage(sql, params, movies, movie_genres) :
          response' = Success([i \in 1..Len(rows) |-> ResponseMovie(rows[i])],
                              total, limit)
    /\ pc' = "done"
    /\ calls' = Settle(calls, "ok")
    /\ UNCHANGED <<dbVars, searchParams, parsedVars, stmtVars, total, delivered,
                   logged, trailerVars, clientVars>>

\* The page statement fails: the outer catch answers.
PageFail ==
    /\ pc = "page"
    /\ response' = CaughtFailure
    /\ pc' = "done"
    /\ calls' = Settle(calls, "error")
    /\ \E e \in PgErrors : logged' = Append(logged, <<"API Error:", e>>)
    /\ UNCHANGED <<dbVars, searchParams, parsedVars, stmtVars, total, delivered,
                   trailerVars, clientVars>>

\* The response has left and the invocation is over: nothing of it remains.
Close ==
    /\ pc = "done"
    /\ searchParams' = NoParams
    /\ pc' = "idle"
    /\ query' = <<>>
    /\ genres' = <<>>
    /\ ratings' = <<>>
    /\ yearMin' = s1900
    /\ yearMax' = s2024
    /\ limit' = NaN
    /\ offset' = NaN
    /\ sql' = [conds |-> <<>>, page |-> Null]
    /\ countSql' = [conds |-> <<>>]
    /\ params' = <<>>
    /\ paramIndex' = 1
    /\ total' = 0
    /\ response' = NoResponse
    /\ calls' = <<>>
    /\ logged' = <<>>
    /\ UNCHANGED <<dbVars, delivered, trailerVars, clientVars>>

Handler == ProbeOk \/ ProbeFail \/ CountOk \/ CountFail \/ PageOk \/ PageFail

----------------------------------------------------------------------------
\* The client: HomePage (page.tsx) with its SearchBar, FilterSidebar and
\* MovieGrid.

\* The page size of MovieGrid (24 in the source), scaled to the catalogs of the
\* model.
ITEMS_PER_PAGE == 2
\* Fetches of MovieGrid awaiting their response at one time.
MaxInFlight == 2
\* Load-more requests of MovieGrid between two changes of the filters.
MaxFetches == 4
\* Timer ids setTimeout has to give out.
MaxTimers == 2

\* n.toString() of a non-negative integer.
RECURSIVE ToStr(_)
ToStr(n) ==
    IF n < 10 THEN <<Digits[n + 1]>> ELSE ToStr(n \div 10) \o <<Digits[(n % 10) + 1]>>

\* list.join(',')
RECURSIVE Join(_)
Join(list) ==
    IF list = <<>> THEN <<>>
    ELSE IF Len(list) = 1 THEN list[1]
    ELSE list[1] \o <<",">> \o Join(Tail(list))

DefaultYearRange == <<1900, 2024>>

\* The page after its first render and the effects of the mount: MovieGrid has
\* sent the request of page 0, SearchBar has set its first timer, the filter
\* panel is closed.
ClientInit ==
    /\ searchQuery = <<>>
    /\ selectedGenres = <<>>
    /\ selectedRatings = <<>>
    /\ yearRange = DefaultYearRange
    /\ showFilters = FALSE
    /\ gridMovies = <<>>
    /\ loading = TRUE
    /\ loadingMore = FALSE
    /\ hasMore = TRUE
    /\ currentPage = 0
    /\ gridTotal = 0
    /\ inFlight = << [ filters |-> [ q |-> <<>>, genres |-> <<>>, ratings |-> <<>>,
                                      yearRange |-> DefaultYearRange ],
                       page |-> 0, append |-> FALSE ] >>
    /\ fetchCount = 1
    /\ lastEvent = "mount"
    /\ localValue = <<>>
    /\ searchTimer = TRUE
    /\ localYearRange = DefaultYearRange
    /\ yearInputs = << <<>>, <<>> >>
    /\ debounceRef = Null
    /\ timers = {}
    /\ lastEdit = Null
    /\ emitted = <<>>
    /\ cleared = "none"

----------------------------------------------------------------------------
\* The requests of the model.

QueryValues == { Null, Some(<<"a">>), Some(<<"B">>), Some(<<"_">>) }
GenresValues == { Null, Some(sDrama), Some(sAction \o <<",">> \o sDrama) }
RatingsValues == { Null, Some(sPG), Some(sPG \o <<",">> \o sR) }
YearValues ==
    { <<Null, Null>>,
      <<Some(<<"2", "0", "0", "0">>), Some(<<"2", "0", "1", "0">>)>>,
      <<Some(<<"1", "9", "5", "0">>), Some(<<"1", "9", "6", "0">>)>> }
WindowValues ==
    { <<Null, Null>>, <<Some(<<"1">>), Some(<<"0">>)>>,
      <<Some(<<"1">>), Some(<<"1">>)>>, <<Some(<<"2">>), Null>> }

SearchRequests ==
    { [ q |-> q, genres |-> g, ratings |-> r, yearMin |-> y[1], yearMax |-> y[2],
        limit |-> w[1], offset |-> w[2] ] :
      q \in QueryValues, g \in GenresValues, r \in RatingsValues,
      y \in YearValues, w \in WindowValues }

Init ==
    /\ \E pick \in CatalogPicks :
          /\ TmdbUnique(MoviesOf(pick))
          /\ movies = MoviesOf(pick)
          /\ movie_genres = LinksOf(pick)
    /\ searchParams = NoParams
    /\ pc = "idle"
    /\ query = <<>>
    /\ genres = <<>>
    /\ ratings = <<>>
    /\ yearMin = s1900
    /\ yearMax = s2024
    /\ limit = NaN
    /\ offset = NaN
    /\ sql = [conds |-> <<>>, page |-> Null]
    /\ countSql = [conds |-> <<>>]
    /\ params = <<>>
    /\ paramIndex = 1
    /\ total = 0
    /\ response = NoResponse
    /\ calls = <<>>
    /\ delivered = <<>>
    /\ logged = <<>>
    /\ tpc = "idle"
    /\ tmdbId = Null
    /\ tmdbApiKey = Null
    /\ fetched = <<>>
    /\ trailerResponse = NoTrailerResponse
    /\ ClientInit

Next ==
    \/ \E sp \in SearchRequests : Request(sp)
    \/ Handler
    \/ Close

Spec == Init /\ [][Next]_vars

----------------------------------------------------------------------------
\* A client that pages through the unfiltered catalog and keeps the pages it
\* is sent; a failure response is dropped.

PagingRequests ==
    { [NoParams EXCEPT !.limit = w[1], !.offset = w[2]] :
      w \in { <<Some(<<"1">>), Null>>, <<Some(<<"1">>), Some(<<"1">>)>>,
              <<Some(<<"2">>), Null>> } }

\* The client receives the response of the finished invocation and keeps it
\* when it is a success.
Deliver ==
    /\ pc = "done"
    /\ response.status = 200
    /\ Len(delivered) < MaxDelivered
    /\ delivered' = Append(delivered, [request |-> searchParams, response |-> response])
    /\ searchParams' = NoParams
    /\ pc' = "idle"
    /\ query' = <<>>
    /\ genres' = <<>>
    /\ ratings' = <<>>
    /\ yearMin' = s1900
    /\ yearMax' = s2024
    /\ limit' = NaN
    /\ offset' = NaN
    /\ sql' = [conds |-> <<>>, page |-> Null]
    /\ countSql' = [conds |-> <<>>]
    /\ params' = <<>>
    /\ paramIndex' = 1
    /\ total' = 0
    /\ response' = NoResponse
    /\ calls' = <<>>
    /\ logged' = <<>>
    /\ UNCHANGED <<dbVars, trailerVars, clientVars>>

NextPaging ==
    \/ \E sp \in PagingRequests : Request(sp)
    \/ Handler
    \/ Deliver
    \/ Close

SpecPaging == Init /\ [][NextPaging]_vars

----------------------------------------------------------------------------
\* Requests whose parameters are missing, empty or not numeric, served by a
\* store that is up: a statement fails only when PostgreSQL rejects it.

sAbc == <<"a", "b", "c">>

LooseRequests ==
    { [ q |-> Null, genres |-> g, ratings |-> r, yearMin |-> ymin, yearMax |-> ymax,
        limit |-> lim, offset |-> off ] :
      g \in { Null, Some(<<>>) }, r \in { Null, Some(<<>>) },
      ymin \in { Null, Some(sAbc), Some(<<"2", "0", "0", "0">>) },
      ymax \in { Null, Some(sAbc) },
      lim \in { Null, Some(sAbc), Some(<<"2">>) },
      off \in { Null, Some(sAbc) } }

\* The page statement is rejected: pool.query throws and the outer catch
\* answers.
PageRejected ==
    /\ pc = "page"
    /\ WindowRejected(limit, offset)
    /\ PageFail

NextLoose ==
    \/ \E sp \in LooseRequests : Request(sp)
    \/ ProbeOk
    \/ CountOk
    \/ PageOk
    \/ PageRejected
    \/ Close

SpecLoose == Init /\ [][NextLoose]_vars

----------------------------------------------------------------------------
\* The trailer endpoint, GET /api/trailer (src/src/app/api/trailer/route.ts).

MaxVideos == 3

moviesVars == <<dbVars, searchParams, pc, parsedVars, stmtVars, total, response,
                calls, delivered>>

\* !x for a value that is null or a string.
Falsy(o) == IsNull(o) \/ Val(o) = ""

\* The videos the provider may list; key is the video's place in the list, so
\* that no two videos of a list share their key.
VideoKinds ==
    [ site : {"YouTube", "Vimeo"}, type : {"Trailer", "Teaser"}, official : BOOLEAN ]

VideoLists ==
    UNION { { [ i \in 1..n |-> [ site |-> f[i].site, type |-> f[i].type,
                                 official |-> f[i].official, key |-> i ] ] :
              f \in [1..n -> VideoKinds] } :
            n \in 0..MaxVideos }

\* The bodies response.json() may give: with or without results.
ProviderData ==
    { [results |-> Null] } \cup { [results |-> Some(l)] : l \in VideoLists }

\* The statuses of a response that is not ok.
NotOkStatuses == { 401, 404 }

\* What fetch or response.json() may throw.
FetchErrors == { "fetch failed", "Unexpected token < in JSON" }

\* new Error(`TMDB API responded with status: ${response.status}`)
StatusError(status) ==
    IF status = 401 THEN "TMDB API responded with status: 401"
    ELSE "TMDB API responded with status: 404"

IsOfficialTrailer(video) ==
    video.site = "YouTube" /\ video.type = "Trailer" /\ video.official = TRUE

IsAnyTrailer(video) == video.site = "YouTube" /\ video.type = "Trailer"

\* Mutant of FindOfficialTrailer: the official flag is not looked at.
FindOfficialTrailer_AnyTrailer(results) ==
    IF \E i \in DOMAIN results : IsAnyTrailer(results[i])
    THEN CHOOSE i \in DOMAIN results :
             /\ IsAnyTrailer(results[i])
             /\ \A j \in 1..(i - 1) : ~IsAnyTrailer(results[j])
    ELSE 0

\* data.results.find(official YouTube trailer): the place of the first such
\* video, 0 for undefined.
FindOfficialTrailer(results) ==
    IF \E i \in DOMAIN results : IsOfficialTrailer(results[i])
    THEN CHOOSE i \in DOMAIN results :
             /\ IsOfficialTrailer(results[i])
             /\ \A j \in 1..(i - 1) : ~IsOfficialTrailer(results[j])
    ELSE 0

\* data.results.find(YouTube trailer)
FindAnyTrailer(results) ==
    IF \E i \in DOMAIN results : IsAnyTrailer(results[i])
    THEN CHOOSE i \in DOMAIN results :
             /\ IsAnyTrailer(results[i])
             /\ \A j \in 1..(i - 1) : ~IsAnyTrailer(results[j])
    ELSE 0

\* `https://www.youtube.com/watch?v=${key}`
WatchUrl(key) == <<"https://www.youtube.com/watch?v=", key>>

\* trailerUrl after the selection.
SelectTrailer(data) ==
    IF ~IsNull(data.results) /\ Len(Val(data.results)) > 0
    THEN LET results == Val(data.results)
             officialTrailer == FindOfficialTrailer(results)
             anyTrailer == FindAnyTrailer(results)
         IN  IF officialTrailer # 0 THEN Some(WatchUrl(results[officialTrailer].key))
             ELSE IF anyTrailer # 0 THEN Some(WatchUrl(results[anyTrailer].key))
             ELSE Null
    ELSE Null

IdRequired == [status |-> 400, body |-> [error |-> "TMDB ID is required"]]

\* Mutant of KeyNotConfigured: the message of the catch.
KeyNotConfigured_CatchMessage ==
    [status |-> 500, body |-> [error |-> "Failed to fetch trailer"]]

KeyNotConfigured ==
    [status |-> 500, body |-> [error |-> "TMDB API key not configured"]]

\* Mutant of TrailerCaught: the thrown error is sent to the caller.
TrailerCaught_SendsError(error) == [status |-> 500, body |-> [error |-> error]]

\* catch (error): the error is logged, the response carries a fixed message.
TrailerCaught(error) == [status |-> 500, body |-> [error |-> "Failed to fetch trailer"]]

\* Mutant of TrailerSuccess: found is always true.
TrailerSuccess_AlwaysFound(trailerUrl) ==
    [status |-> 200, body |-> [trailerUrl |-> trailerUrl, found |-> TRUE]]

\* { trailerUrl, found: !!trailerUrl }
TrailerSuccess(trailerUrl) ==
    [status |-> 200, body |-> [trailerUrl |-> trailerUrl, found |-> ~IsNull(trailerUrl)]]

SettleFetch(fs, outcome) == [fs EXCEPT ![Len(fs)].outcome = outcome]

\* A trailer request arrives while the environment holds key: without tmdbId
\* it is answered 400, without key 500, and otherwise the provider is called.
TrailerRequest(id, key) ==
    /\ tpc = "idle"
    /\ tmdbId' = id
    /\ tmdbApiKey' = key
    /\ IF Falsy(id)
       THEN /\ trailerResponse' = IdRequired
            /\ tpc' = "done"
            /\ fetched' = <<>>
       ELSE IF Falsy(key)
       THEN /\ trailerResponse' = KeyNotConfigured
            /\ tpc' = "done"
            /\ fetched' = <<>>
       ELSE /\ fetched' = << [ tmdbId |-> Val(id), api_key |-> Val(key),
                               outcome |-> [kind |-> "pending"] ] >>
            /\ tpc' = "fetch"
            /\ trailerResponse' = NoTrailerResponse
    /\ UNCHANGED <<moviesVars, logged, clientVars>>

\* fetch rejects: the catch answers.
FetchThrows ==
    /\ tpc = "fetch"
    /\ \E e \in FetchErrors :
          /\ fetched' = SettleFetch(fetched, [kind |-> "threw", error |-> e])
          /\ logged' = Append(logged, <<"Error fetching trailer:", e>>)
          /\ trailerResponse' = TrailerCaught(e)
    /\ tpc' = "done"
    /\ UNCHANGED <<moviesVars, tmdbId, tmdbApiKey, clientVars>>

\* The provider answers with a status that is not ok: the handler throws and
\* the catch answers.
FetchNotOk ==
    /\ tpc = "fetch"
    /\ \E status \in NotOkStatuses :
          /\ fetched' = SettleFetch(fetched, [kind |-> "status", status |-> status])
          /\ logged' = Append(logged, <<"Error fetching trailer:", StatusError(status)>>)
          /\ trailerResponse' = TrailerCaught(StatusError(status))
    /\ tpc' = "done"
    /\ UNCHANGED <<moviesVars, tmdbId, tmdbApiKey, clientVars>>

\* The provider answers ok and response.json() rejects: the catch answers.
JsonThrows ==
    /\ tpc = "fetch"
    /\ \E e \in FetchErrors :
          /\ fetched' = SettleFetch(fetched, [kind |-> "body", error |-> e])
          /\ logged' = Append(logged, <<"Error fetching trailer:", e>>)
          /\ trailerResponse' = TrailerCaught(e)
    /\ tpc' = "done"
    /\ UNCHANGED <<moviesVars, tmdbId, tmdbApiKey, clientVars>>

\* The provider answers ok with data: the trailer is selected and sent.
FetchOk ==
    /\ tpc = "fetch"
    /\ \E data \in ProviderData :
          /\ fetched' = SettleFetch(fetched, [kind |-> "ok", data |-> data])
          /\ trailerResponse' = TrailerSuccess(SelectTrailer(data))
    /\ tpc' = "done"
    /\ UNCHANGED <<moviesVars, tmdbId, tmdbApiKey, logged, clientVars>>

\* The trailer response has left and the invocation is over.
TrailerClose ==
    /\ tpc = "done"
    /\ tpc' = "idle"
    /\ tmdbId' = Null
    /\ tmdbApiKey' = Null
    /\ fetched' = <<>>
    /\ trailerResponse' = NoTrailerResponse
    /\ logged' = <<>>
    /\ UNCHANGED <<moviesVars, clientVars>>

TrailerHandler == FetchThrows \/ FetchNotOk \/ JsonThrows \/ FetchOk

TmdbIdValues == { Null, Some(""), Some("603") }
ApiKeyValues == { Null, Some(""), Some("key") }

\* The catalog requests of the server model: none, a text, the name of a genre
\* as the text, a malformed limit.
ServerRequests ==
    { NoParams, [NoParams EXCEPT !.q = Some(<<"a">>)],
      [NoParams EXCEPT !.q = Some(sDrama)],
      [NoParams EXCEPT !.limit = Some(sAbc)] }

\* Both endpoints, one invocation at a time: they share no state, so running
\* them side by side adds no behaviour of either.
NextServer ==
    \/ \E sp \in ServerRequests : tpc = "idle" /\ Request(sp)
    \/ Handler
    \/ Close
    \/ \E id \in TmdbIdValues : \E key \in ApiKeyValues :
          pc = "idle" /\ TrailerRequest(id, key)
    \/ TrailerHandler
    \/ TrailerClose

SpecServer == Init /\ [][NextServer]_vars

----------------------------------------------------------------------------
\* The client's components.

serverVars == <<moviesVars, logged, trailerVars>>

\* The filter state of HomePage, as MovieGrid receives it.
CurrentFilters ==
    [ q |-> searchQuery, genres |-> selectedGenres, ratings |-> selectedRatings,
      yearRange |-> yearRange ]

\* The query string fetchMovies builds, as the endpoint's searchParams reads it.
GridParams(f, page) ==
    [ q |-> IF f.q # <<>> THEN Some(f.q) ELSE Null,
      genres |-> IF Len(f.genres) > 0 THEN Some(Join(f.genres)) ELSE Null,
      ratings |-> IF Len(f.ratings) > 0 THEN Some(Join(f.ratings)) ELSE Null,
      yearMin |-> Some(ToStr(f.yearRange[1])),
      yearMax |-> Some(ToStr(f.yearRange[2])),
      limit |-> Some(ToStr(ITEMS_PER_PAGE)),
      offset |-> Some(ToStr(page * ITEMS_PER_PAGE)) ]

\* The bodies GET /api/movies may answer a request with when the store answers
\* every statement: the handler's steps Request, ProbeOk, CountOk and PageOk in
\* one.
HandlerAnswers(sp, ms, mgs) ==
    LET b == BuildWhere(OrDefault(sp.q, <<>>), SplitOrEmpty(sp.genres),
                        SplitOrEmpty(sp.ratings), OrDefault(sp.yearMin, s1900),
                        OrDefault(sp.yearMax, s2024))
        lim == ParseInt(OrDefault(sp.limit, s1000))
        off == ParseInt(OrDefault(sp.offset, s0))
        n == ExecCount([conds |-> b.conds], b.params, ms, mgs)
        stmt == [ conds |-> b.conds,
                  page |-> Some([limitAt |-> b.paramIndex,
                                 offsetAt |-> b.paramIndex + 1]) ]
    IN  { Success([i \in 1..Len(rows) |-> ResponseMovie(rows[i])], n, lim).body :
          rows \in ExecPage(stmt, b.params \o <<lim, off>>, ms, mgs) }

\* movie.field as JavaScript reads it: a field the record lacks is undefined.
Read(movie, field) == IF field \in DOMAIN movie THEN movie[field] ELSE Null

PlaceholderPoster == <<"/", "p">>
ImageUrl(path) == <<"w", "5", "0", "0">> \o path

\* MovieCard and MovieModal: the poster shown for a movie.
PosterUrl(movie) ==
    IF ~IsNull(Read(movie, "poster_path")) /\ Val(Read(movie, "poster_path")) # <<>>
    THEN ImageUrl(Val(Read(movie, "poster_path")))
    ELSE PlaceholderPoster

IdsOf(ms) == { ms[i].id : i \in 1..Len(ms) }

\* Mutant of AppendNew: the page is appended without the filter.
AppendNew_NoFilter(prev, new) == prev \o new

\* setMovies(prev => [...prev, ...newMovies]): the movies of the page that are
\* not yet in the list are appended.
AppendNew(prev, new) ==
    LET NotYet(m) == m.id \notin IdsOf(prev) IN prev \o SelectSeq(new, NotYet)

\* fetchMovies(page, append) up to its await: the flag is set and the request
\* leaves with the filters of the render the function was made in.
Fetching(f, page, append) ==
    /\ inFlight' = Append(inFlight, [filters |-> f, page |-> page, append |-> append])
    /\ IF page = 0
       THEN loading' = TRUE /\ UNCHANGED loadingMore
       ELSE loadingMore' = TRUE /\ UNCHANGED loading

\* MovieGrid after a render with new filters: the reset effect, then the
\* initial-load effect fetchMovies(0).
GridEffects(f) ==
    /\ Len(inFlight) < MaxInFlight
    /\ gridMovies' = <<>>
    /\ currentPage' = 0
    /\ hasMore' = TRUE
    /\ gridTotal' = 0
    /\ Fetching(f, 0, FALSE)
    /\ fetchCount' = 1
    /\ lastEvent' = "reset"

\* The scroll handler near the bottom of the page.
Scroll ==
    /\ ~loadingMore
    /\ hasMore
    /\ Len(inFlight) < MaxInFlight
    /\ fetchCount < MaxFetches
    /\ Fetching(CurrentFilters, currentPage + 1, TRUE)
    /\ fetchCount' = fetchCount + 1
    /\ lastEvent' = "scroll"
    /\ UNCHANGED <<gridMovies, hasMore, currentPage, gridTotal>>
    /\ UNCHANGED <<serverVars, homeVars, searchBarVars, sidebarVars, cleared>>

Without(s, i) == SubSeq(s, 1, i - 1) \o SubSeq(s, i + 1, Len(s))

\* The response of request i arrives with status 200: fetchMovies goes on
\* after its awaits, then runs its finally block.
RespondOk(i) ==
    /\ i \in 1..Len(inFlight)
    /\ \E data \in HandlerAnswers(GridParams(inFlight[i].filters, inFlight[i].page),
                                  movies, movie_genres) :
          /\ gridMovies' = IF inFlight[i].append
                           THEN AppendNew(gridMovies, data.movies)
                           ELSE data.movies
          /\ gridTotal' = data.total
          /\ hasMore' = (Len(data.movies) = ITEMS_PER_PAGE)
    /\ currentPage' = inFlight[i].page
    /\ loading' = FALSE
    /\ loadingMore' = FALSE
    /\ inFlight' = Without(inFlight, i)
    /\ lastEvent' = IF inFlight[i].append THEN "appended" ELSE "replaced"
    /\ UNCHANGED fetchCount
    /\ UNCHANGED <<serverVars, homeVars, searchBarVars, sidebarVars, cleared>>

\* Mutant of RespondFail: the list is emptied whatever append is.
RespondFail_AlwaysEmpties(i) ==
    /\ i \in 1..Len(inFlight)
    /\ gridMovies' = <<>>
    /\ loading' = FALSE
    /\ loadingMore' = FALSE
    /\ inFlight' = Without(inFlight, i)
    /\ lastEvent' = IF inFlight[i].append THEN "failedAppend" ELSE "failed"
    /\ UNCHANGED <<hasMore, currentPage, gridTotal, fetchCount>>
    /\ UNCHANGED <<serverVars, homeVars, searchBarVars, sidebarVars, cleared>>

\* Request i fails (fetch rejects, or the status is not OK): the catch block,
\* then the finally block.
RespondFail(i) ==
    /\ i \in 1..Len(inFlight)
    /\ gridMovies' = IF inFlight[i].append THEN gridMovies ELSE <<>>
    /\ loading' = FALSE
    /\ loadingMore' = FALSE
    /\ inFlight' = Without(inFlight, i)
    /\ lastEvent' = IF inFlight[i].append THEN "failedAppend" ELSE "failed"
    /\ UNCHANGED <<hasMore, currentPage, gridTotal, fetchCount>>
    /\ UNCHANGED <<serverVars, homeVars, searchBarVars, sidebarVars, cleared>>

\* The text fields of the year inputs.
YearStrings(r) == <<ToStr(r[1]), ToStr(r[2])>>

\* SearchBar after a render of HomePage in which value became q: the sync
\* effect sets the text, and the debounce effect sets a new timer.
SyncSearchBar(q) ==
    IF q # searchQuery
    THEN localValue' = q /\ searchTimer' = TRUE
    ELSE UNCHANGED searchBarVars

\* FilterSidebar after a render in which yearRange became r: the sync effect
\* sets the local range and both texts.
SyncSidebar(r) ==
    IF showFilters
    THEN localYearRange' = r /\ yearInputs' = YearStrings(r)
    ELSE UNCHANGED <<localYearRange, yearInputs>>

\* The search input's onChange: setLocalValue; the debounce effect runs again.
TypeSearch(v) ==
    /\ v # localValue
    /\ localValue' = v
    /\ searchTimer' = TRUE
    /\ cleared' = "none"
    /\ UNCHANGED <<serverVars, homeVars, gridVars, sidebarVars>>

\* SearchBar's timer fires: onChange(localValue) when the text differs from the
\* page's query; the render that follows reaches MovieGrid and SearchBar.
SearchTimerFires ==
    /\ searchTimer
    /\ IF localValue # searchQuery
       THEN /\ searchQuery' = localValue
            /\ GridEffects([CurrentFilters EXCEPT !.q = localValue])
            /\ searchTimer' = TRUE
            /\ UNCHANGED <<localValue, selectedGenres, selectedRatings, yearRange,
                           showFilters>>
       ELSE /\ searchTimer' = FALSE
            /\ UNCHANGED <<localValue, homeVars, gridVars>>
    /\ UNCHANGED <<serverVars, sidebarVars, cleared>>

\* SearchBar.handleClear: the button is there while the text is not empty.
ClearSearch ==
    /\ localValue # <<>>
    /\ localValue' = <<>>
    /\ searchTimer' = TRUE
    /\ IF searchQuery # <<>>
       THEN /\ searchQuery' = <<>>
            /\ GridEffects([CurrentFilters EXCEPT !.q = <<>>])
            /\ UNCHANGED <<selectedGenres, selectedRatings, yearRange, showFilters>>
       ELSE UNCHANGED <<homeVars, gridVars>>
    /\ cleared' = "none"
    /\ UNCHANGED <<serverVars, sidebarVars>>

TimerIds(ts) == { t.id : t \in ts }

\* The edit at hand arrives before the delay of the panel's previous edit has
\* elapsed.
InBurst == ~IsNull(lastEdit) /\ timers # {}

\* Mutant of Schedule: the timer of the previous edit is not cleared.
Schedule_NoClear(range) ==
    LET free == { i \in 1..MaxTimers : i \notin TimerIds(timers) /\ Some(i) # debounceRef }
    IN  /\ free # {}
        /\ LET id == CHOOSE i \in free : \A j \in free : i <= j IN
              /\ timers' = timers \cup { [id |-> id, range |-> range] }
              /\ debounceRef' = Some(id)
        /\ lastEdit' = Some([range |-> range, edits |-> IF InBurst THEN 2 ELSE 1])
        /\ emitted' = IF InBurst THEN emitted ELSE <<>>

\* if (debounceRef.current) clearTimeout(debounceRef.current);
\* debounceRef.current = setTimeout(() => onYearRangeChange(newRange), delay)
\* setTimeout gives an id no pending timer has.
Schedule(range) ==
    LET kept == IF IsNull(debounceRef) THEN timers
                ELSE { t \in timers : t.id # Val(debounceRef) }
        free == { i \in 1..MaxTimers : i \notin TimerIds(kept) /\ Some(i) # debounceRef }
    IN  /\ free # {}
        /\ LET id == CHOOSE i \in free : \A j \in free : i <= j IN
              /\ timers' = kept \cup { [id |-> id, range |-> range] }
              /\ debounceRef' = Some(id)
        /\ lastEdit' = Some([range |-> range, edits |-> IF InBurst THEN 2 ELSE 1])
        /\ emitted' = IF InBurst THEN emitted ELSE <<>>

\* !isNaN(numValue) && numValue >= 1900 && numValue <= 2024
ValidYear(num) == IF IsNaN(num) THEN FALSE ELSE Val(num) >= 1900 /\ Val(num) <= 2024

\* The range after bound index is set to n: the other bound follows when the
\* order would break.
WithBound(range, index, n) ==
    IF index = 1 /\ n > range[2] THEN <<n, n>>
    ELSE IF index = 2 /\ n < range[1] THEN <<n, n>>
    ELSE [range EXCEPT ![index] = n]

\* FilterSidebar.handleYearInputChange(index, value); index 1 is the source's 0.
YearInputChange(index, value) ==
    /\ showFilters
    /\ LET typed == [yearInputs EXCEPT ![index] = value] IN
       IF ValidYear(ParseInt(value))
       THEN LET n == Val(ParseInt(value))
                newRange == WithBound(localYearRange, index, n)
            IN  /\ yearInputs' =
                      IF newRange[3 - index] # localYearRange[3 - index]
                      THEN [typed EXCEPT ![3 - index] = ToStr(n)]
                      ELSE typed
                /\ localYearRange' = newRange
                /\ Schedule(newRange)
       ELSE /\ yearInputs' = typed
            /\ UNCHANGED <<localYearRange, debounceRef, timers, lastEdit, emitted>>
    /\ cleared' = "none"
    /\ UNCHANGED <<serverVars, homeVars, gridVars, searchBarVars>>

\* FilterSidebar.handleYearInputBlur(index): a text that is no valid year is
\* replaced by the bound it stands for.
YearInputBlur(index) ==
    /\ showFilters
    /\ ~ValidYear(ParseInt(yearInputs[index]))
    /\ yearInputs' = [yearInputs EXCEPT ![index] = ToStr(localYearRange[index])]
    /\ UNCHANGED <<localYearRange, debounceRef, timers, lastEdit, emitted>>
    /\ cleared' = "none"
    /\ UNCHANGED <<serverVars, homeVars, gridVars, searchBarVars>>

\* FilterSidebar.handleYearSliderChange(index, value)
YearSliderChange(index, value) ==
    /\ showFilters
    /\ LET newRange == WithBound(localYearRange, index, value) IN
          /\ localYearRange' = newRange
          /\ yearInputs' = YearStrings(newRange)
          /\ Schedule(newRange)
    /\ cleared' = "none"
    /\ UNCHANGED <<serverVars, homeVars, gridVars, searchBarVars>>

Dist(a, b) == IF a < b THEN b - a ELSE a - b

\* A click on the slider's track at the place of year value: the closer handle
\* moves, unless it would pass the other one.
TrackClick(value) ==
    IF Dist(value, localYearRange[1]) < Dist(value, localYearRange[2])
    THEN value <= localYearRange[2] /\ YearSliderChange(1, value)
    ELSE value >= localYearRange[1] /\ YearSliderChange(2, value)

\* A debounce timer of FilterSidebar fires: onYearRangeChange(newRange), that
\* is HomePage.setYearRange, and the render that follows.
YearTimerFires ==
    \E t \in timers :
        /\ timers' = timers \ {t}
        /\ emitted' = Append(emitted, t.range)
        /\ yearRange' = t.range
        /\ GridEffects([CurrentFilters EXCEPT !.yearRange = t.range])
        /\ SyncSidebar(t.range)
        /\ UNCHANGED <<searchQuery, selectedGenres, selectedRatings, showFilters,
                       debounceRef, lastEdit>>
        /\ UNCHANGED <<serverVars, searchBarVars, cleared>>

\* FilterSidebar.clearFilters
ClearFilters ==
    /\ showFilters
    /\ selectedGenres' = <<>>
    /\ selectedRatings' = <<>>
    /\ yearRange' = DefaultYearRange
    /\ localYearRange' = DefaultYearRange
    /\ yearInputs' = YearStrings(DefaultYearRange)
    /\ GridEffects([CurrentFilters EXCEPT !.genres = <<>>, !.ratings = <<>>,
                                          !.yearRange = DefaultYearRange])
    /\ lastEdit' = Null
    /\ emitted' = <<>>
    /\ cleared' = "filters"
    /\ UNCHANGED <<searchQuery, showFilters, debounceRef, timers>>
    /\ UNCHANGED <<serverVars, searchBarVars>>

\* FilterSidebar.handleGenreToggle(genre), that is HomePage.setSelectedGenres.
GenreToggle(genre) ==
    /\ showFilters
    /\ LET Other(g) == g # genre
           gs == IF \E i \in 1..Len(selectedGenres) : selectedGenres[i] = genre
                 THEN SelectSeq(selectedGenres, Other)
                 ELSE Append(selectedGenres, genre)
       IN  /\ selectedGenres' = gs
           /\ GridEffects([CurrentFilters EXCEPT !.genres = gs])
    /\ cleared' = "none"
    /\ UNCHANGED <<searchQuery, selectedRatings, yearRange, showFilters>>
    /\ UNCHANGED <<serverVars, searchBarVars, sidebarVars>>

\* HomePage.handleTitleClick: every filter is reset and the panel is closed,
\* which unmounts FilterSidebar; its timers stay.
TitleClick ==
    /\ searchQuery' = <<>>
    /\ selectedGenres' = <<>>
    /\ selectedRatings' = <<>>
    /\ yearRange' = DefaultYearRange
    /\ showFilters' = FALSE
    /\ GridEffects([ q |-> <<>>, genres |-> <<>>, ratings |-> <<>>,
                     yearRange |-> DefaultYearRange ])
    /\ SyncSearchBar(<<>>)
    /\ localYearRange' = DefaultYearRange
    /\ yearInputs' = << <<>>, <<>> >>
    /\ debounceRef' = Null
    /\ lastEdit' = Null
    /\ emitted' = <<>>
    /\ cleared' = "title"
    /\ UNCHANGED timers
    /\ UNCHANGED serverVars

\* HomePage.handleFilterToggle: the panel opens (FilterSidebar mounts with the
\* page's range and a fresh debounceRef) or closes.  The user opens it when no
\* timer of an earlier panel is pending.
FilterToggle ==
    /\ showFilters' = ~showFilters
    /\ IF showFilters
       THEN /\ localYearRange' = DefaultYearRange
            /\ yearInputs' = << <<>>, <<>> >>
       ELSE /\ timers = {}
            /\ localYearRange' = yearRange
            /\ yearInputs' = YearStrings(yearRange)
    /\ debounceRef' = Null
    /\ lastEdit' = Null
    /\ emitted' = <<>>
    /\ cleared' = "none"
    /\ UNCHANGED <<searchQuery, selectedGenres, selectedRatings, yearRange, timers>>
    /\ UNCHANGED <<serverVars, gridVars, searchBarVars>>

\* The catalogs MovieGrid is followed on: none, one page, and more than one
\* page with and without rows the ORDER BY leaves equal.
GridPicks == { <<>>, <<2>>, <<1, 2, 5>>, <<3, 4, 7>> }

GridQueries == { <<"a">> }

\* MovieGrid under a user who types, clears, clicks the title, picks a genre
\* in the panel and scrolls, with responses arriving in any order or failing.
InitGrid == Init /\ \E pick \in GridPicks : movies = MoviesOf(pick)

NextGrid ==
    \/ \E v \in GridQueries \cup {<<>>} : TypeSearch(v)
    \/ SearchTimerFires
    \/ ClearSearch
    \/ TitleClick
    \/ FilterToggle
    \/ \E g \in {sDrama} : GenreToggle(g)
    \/ Scroll
    \/ \E i \in 1..MaxInFlight : RespondOk(i)
    \/ \E i \in 1..MaxInFlight : RespondFail(i)

SpecGrid == InitGrid /\ [][NextGrid]_vars

\* MovieGrid with its filters fixed, every request answered, one request at a
\* time.
NextScroll ==
    \/ inFlight = <<>> /\ Scroll
    \/ \E i \in 1..MaxInFlight : RespondOk(i)

SpecScroll == Init /\ [][NextScroll]_vars

YearTexts == { <<"2", "0", "0", "0">>, <<"2", "0", "0", "0", "a">>, <<"2", "0">>, <<>> }
TrackValues == { 1950, 2000 }

\* The filter controls: the search text, the year inputs and the slider, the
\* clear button, the title and the panel's toggle, with the timers firing at
\* any time.  The catalog is empty and every response arrives before the next
\* event of the controls.
InitFilters == Init /\ movies = <<>>

NextFilters ==
    \/ \E v \in GridQueries \cup {<<>>} : inFlight = <<>> /\ TypeSearch(v)
    \/ inFlight = <<>> /\ SearchTimerFires
    \/ inFlight = <<>> /\ ClearSearch
    \/ \E index \in 1..2 : \E value \in YearTexts :
          inFlight = <<>> /\ YearInputChange(index, value)
    \/ \E index \in 1..2 : inFlight = <<>> /\ YearInputBlur(index)
    \/ \E value \in TrackValues : inFlight = <<>> /\ TrackClick(value)
    \/ inFlight = <<>> /\ YearTimerFires
    \/ inFlight = <<>> /\ ClearFilters
    \/ inFlight = <<>> /\ TitleClick
    \/ inFlight = <<>> /\ FilterToggle
    \/ \E i \in 1..MaxInFlight : RespondOk(i)
    \/ \E i \in 1..MaxInFlight : RespondFail(i)

SpecFilters == InitFilters /\ [][NextFilters]_vars

----------------------------------------------------------------------------
\* The filter predicate as the interface states it, read off the request and
\* the tables.

Answered == pc = "done" /\ response.status = 200
Page == response.body.movies
PageIds == { Page[i].id : i \in 1..Len(Page) }

\* The genre names linked to a movie through movie_genres.
MovieGenreNames(id) ==
    { g.name : g \in { g \in genresTable : <<id, g.id>> \in movie_genres } }

ElemsOf(s) == { s[i] : i \in 1..Len(s) }

\* q matches a text: the text is like %q%, letter case ignored.
TextMatches(q, text) == LikeMatch(LowerStr(<<"%">> \o q \o <<"%">>), LowerStr(text))

PassesText(id) ==
    \/ query = <<>>
    \/ TextMatches(query, movies[id].title)
    \/ (~IsNull(movies[id].overview) /\ TextMatches(query, Val(movies[id].overview)))

PassesGenres(id) == genres = <<>> \/ ElemsOf(genres) \cap MovieGenreNames(id) # {}

PassesRatings(id) ==
    \/ ratings = <<>>
    \/ (~IsNull(movies[id].rating) /\ Val(movies[id].rating) \in ElemsOf(ratings))

PassesYears(id) ==
    \/ IsNull(movies[id].release_date)
    \/ /\ Val(ParseInt(yearMin)) <= Val(movies[id].release_date)
       /\ Val(movies[id].release_date) <= Val(ParseInt(yearMax))

Passes(id) == PassesText(id) /\ PassesGenres(id) /\ PassesRatings(id) /\ PassesYears(id)

\* The page holds the whole result set: it starts at 0 and is not full.
WholeResult == offset = Num(0) /\ Len(Page) < Val(limit)

\* C1: every movie of a returned page passes all the active filters at once:
\* text, genre membership, rating membership and year range (or null date).
C1_PageSatisfiesAllFilters ==
    Answered => \A id \in PageIds : id \in DOMAIN movies /\ Passes(id)

\* C1 witness: a page with a movie, returned under a text, a genre, a rating
\* and a year filter that together leave some movie of the catalog out.
C1_Witness ==
    /\ Answered
    /\ Len(Page) >= 1
    /\ query # <<>> /\ genres # <<>> /\ ratings # <<>>
    /\ ~IsNull(searchParams.yearMin)
    /\ \E id \in DOMAIN movies : ~Passes(id)

\* C2: total is the number of distinct movies passing the filters, whatever
\* limit and offset are.
C2_TotalCountsMatches ==
    Answered => response.body.total = Cardinality({ id \in DOMAIN movies : Passes(id) })

\* C2 witness: a window shorter than the result set, and a movie left out by
\* the filters.
C2_Witness ==
    /\ Answered
    /\ response.body.total > Len(Page)
    /\ response.body.total >= 2
    /\ limit = Num(1)
    /\ genres # <<>>

\* C3: with the filters and the catalog unchanged, page (offset 0, limit N)
\* followed by page (offset N, limit N) is page (offset 0, limit 2N), also
\* when movies are equal in every sort key.
C3_PagesConcatenate ==
    \A i, j, k \in DOMAIN delivered :
        LET a == delivered[i]
            b == delivered[j]
            c == delivered[k]
            lim(d) == Val(ParseInt(OrDefault(d.request.limit, s1000)))
            off(d) == Val(ParseInt(OrDefault(d.request.offset, s0)))
        IN  ( /\ a.response.status = 200 /\ b.response.status = 200
              /\ c.response.status = 200
              /\ off(a) = 0 /\ lim(b) = lim(a) /\ off(b) = lim(a)
              /\ off(c) = 0 /\ lim(c) = 2 * lim(a) )
            => a.response.body.movies \o b.response.body.movies
                 = c.response.body.movies

\* C4: no movie id twice in a page, and a page that holds the whole result
\* set has exactly total entries: a movie with several listed genres is
\* returned once and counted once.
C4_OncePerPageAndTotal ==
    Answered =>
        /\ \A i, j \in 1..Len(Page) : i # j => Page[i].id # Page[j].id
        /\ WholeResult => response.body.total = Len(Page)

\* C4 witness: a returned movie linked to two genres, both in the requested
\* list.
C4_Witness ==
    /\ Answered
    /\ WholeResult
    /\ \E id \in PageIds :
          /\ Cardinality(MovieGenreNames(id)) >= 2
          /\ Cardinality(MovieGenreNames(id) \cap ElemsOf(genres)) >= 2

\* C5: a movie without release date passes the year filter of every range:
\* when it passes the text, genre and rating filters it is counted, and it is
\* on the page that holds the whole result set.
C5_NullDatePassesYears ==
    Answered =>
        LET undated == { id \in DOMAIN movies :
                           /\ IsNull(movies[id].release_date)
                           /\ PassesText(id) /\ PassesGenres(id) /\ PassesRatings(id) }
        IN  /\ response.body.total >= Cardinality(undated)
            /\ WholeResult => undated \subseteq PageIds

\* C5 witness: a year range that leaves out every dated movie of the catalog,
\* for no other reason than its date, while an undated one is returned.
C5_Witness ==
    /\ Answered
    /\ ~IsNull(searchParams.yearMin)
    /\ \E id \in PageIds : IsNull(movies[id].release_date)
    /\ \E id \in DOMAIN movies : ~IsNull(movies[id].release_date)
    /\ \A id \in DOMAIN movies :
          ~IsNull(movies[id].release_date) =>
              /\ ~PassesYears(id)
              /\ PassesText(id) /\ PassesGenres(id) /\ PassesRatings(id)

\* a >= b with null after every non-null value.
GeqNullsLast(a, b) == IsNull(b) \/ (~IsNull(a) /\ Val(a) >= Val(b))

\* C6: for a before b in a page: a is enriched or b is not; on equal
\* enrichment a's popularity is >= b's, nulls last; on equal popularity a's
\* vote average is >= b's, nulls last; on equal vote average a's title is <=
\* b's.
C6_PageOrdered ==
    Answered =>
        \A i, j \in 1..Len(Page) :
            i < j =>
                LET a == Page[i]
                    b == Page[j]
                    sameEnrichment == IsNull(a.tmdbId) = IsNull(b.tmdbId)
                IN  /\ ~IsNull(a.tmdbId) \/ IsNull(b.tmdbId)
                    /\ sameEnrichment => GeqNullsLast(a.popularity, b.popularity)
                    /\ (sameEnrichment /\ a.popularity = b.popularity)
                          => GeqNullsLast(a.voteAverage, b.voteAverage)
                    /\ ( /\ sameEnrichment /\ a.popularity = b.popularity
                         /\ a.voteAverage = b.voteAverage )
                          => StrLeq(a.title, b.title)

\* C6 witness: a page whose two movies are equal in enrichment, popularity and
\* vote average, so that the title decides.
C6_Witness ==
    /\ Answered
    /\ Len(Page) = 2
    /\ ~IsNull(Page[1].tmdbId) /\ ~IsNull(Page[2].tmdbId)
    /\ ~IsNull(Page[1].popularity)
    /\ Page[1].popularity = Page[2].popularity
    /\ Page[1].voteAverage = Page[2].voteAverage
    /\ Page[1].title # Page[2].title

\* C7: the genres list of every returned movie is exactly the set of genre
\* names linked to the movie, each once, under every filter combination.
C7_GenresListComplete ==
    Answered =>
        \A i \in 1..Len(Page) :
            /\ ElemsOf(Page[i].genres) = MovieGenreNames(Page[i].id)
            /\ Len(Page[i].genres) = Cardinality(MovieGenreNames(Page[i].id))

\* The movies with at least one listed genre.
WithListedGenre == { id \in DOMAIN movies : ElemsOf(genres) \cap MovieGenreNames(id) # {} }

\* C8: under a genres list and no other restricting filter (no text, no
\* rating, a year range every movie passes), the result set is the set of
\* movies with at least one listed genre.
C8_AnyListedGenre ==
    ( /\ Answered
      /\ genres # <<>> /\ query = <<>> /\ ratings = <<>>
      /\ \A id \in DOMAIN movies : PassesYears(id) )
    => /\ response.body.total = Cardinality(WithListedGenre)
       /\ PageIds \subseteq WithListedGenre
       /\ WholeResult => PageIds = WithListedGenre

\* C8 witness: two genres listed, a returned movie with only one of them, and
\* a movie of the catalog with neither.
C8_Witness ==
    /\ Answered
    /\ Len(genres) = 2 /\ query = <<>> /\ ratings = <<>>
    /\ \A id \in DOMAIN movies : PassesYears(id)
    /\ \E id \in PageIds : Cardinality(MovieGenreNames(id) \cap ElemsOf(genres)) = 1
    /\ \E id \in DOMAIN movies : id \notin WithListedGenre

\* q, letter case ignored, is a contiguous substring of text.
ContainsIgnoringCase(q, text) ==
    \E i \in 0..(Len(text) - Len(q)) :
        LowerStr(SubSeq(text, i + 1, i + Len(q))) = LowerStr(q)

\* The movies whose title or overview contains the query.
WithSubstring ==
    { id \in DOMAIN movies :
        \/ ContainsIgnoringCase(query, movies[id].title)
        \/ /\ ~IsNull(movies[id].overview)
           /\ ContainsIgnoringCase(query, Val(movies[id].overview)) }

\* C9: for a non-empty q a movie passes the text filter exactly when q, letter
\* case ignored, is a contiguous substring of its title or of its overview:
\* every returned movie contains q, and with no other restricting filter total
\* is the number of movies that contain q.
C9_TextFilterIsSubstring ==
    (Answered /\ query # <<>>) =>
        /\ PageIds \subseteq WithSubstring
        /\ ( /\ genres = <<>> /\ ratings = <<>>
             /\ \A id \in DOMAIN movies : PassesYears(id) )
           => response.body.total = Cardinality(WithSubstring)

\* C10: when the probe, the count statement or the page statement fails, the
\* invocation ends with status 500, an empty movies list, total 0 and a
\* non-empty error.
C10_StoreFailureAnswer ==
    (\E i \in 1..Len(calls) : calls[i].result = "error") =>
        /\ pc = "done"
        /\ response.status = 500
        /\ response.body.movies = <<>>
        /\ response.body.total = 0
        /\ response.body.error # ""

\* C10 witness: the probe and the count statement succeeded and the page
\* statement failed.
C10_Witness ==
    /\ pc = "done"
    /\ Len(calls) = 3
    /\ calls[3].result = "error"

----------------------------------------------------------------------------
\* Missing, empty and malformed parameters as the interface states them.

\* A parameter that is present, not empty and does not start with a number.
NonNumeric(p) == ~IsNull(p) /\ Val(p) # <<>> /\ IsNaN(ParseInt(Val(p)))

\* The number the interface prescribes for a parameter: its value, and dflt
\* when it is missing or not numeric.
BoundOrDefault(p, dflt) ==
    IF IsNull(p) \/ IsNaN(ParseInt(Val(p))) THEN dflt ELSE Val(ParseInt(Val(p)))

\* The movie has no release date or one of a year in lo..hi.
InYears(id, lo, hi) ==
    \/ IsNull(movies[id].release_date)
    \/ (lo <= Val(movies[id].release_date) /\ Val(movies[id].release_date) <= hi)

\* The result set when a non-numeric year bound is replaced by its default.
WithDefaultYears ==
    { id \in DOMAIN movies :
        /\ PassesText(id) /\ PassesGenres(id) /\ PassesRatings(id)
        /\ InYears(id, BoundOrDefault(searchParams.yearMin, 1900),
                       BoundOrDefault(searchParams.yearMax, 2024)) }

\* C11: a request whose yearMin or yearMax is not numeric is answered with
\* status 200 and the result computed with 1900 for yearMin and 2024 for
\* yearMax in place of the non-numeric value.
C11_NonNumericYearUsesDefault ==
    ( /\ pc = "done"
      /\ NonNumeric(searchParams.yearMin) \/ NonNumeric(searchParams.yearMax)
      /\ ~WindowRejected(limit, offset) )
    => /\ response.status = 200
       /\ response.body.total = Cardinality(WithDefaultYears)
       /\ PageIds \subseteq WithDefaultYears

\* The length of the window lim, off over n rows.
WindowLen(n, lim, off) ==
    IF n - off <= 0 THEN 0 ELSE IF n - off < lim THEN n - off ELSE lim

\* C12: a request whose limit or offset is not numeric is answered with
\* status 200 and the page of limit 1000 and offset 0 in place of the
\* malformed value, never with an error.
C12_NonNumericWindowUsesDefault ==
    ( /\ pc = "done"
      /\ NonNumeric(searchParams.limit) \/ NonNumeric(searchParams.offset) )
    => /\ response.status = 200
       /\ Len(Page) = WindowLen(response.body.total,
                                 BoundOrDefault(searchParams.limit, 1000),
                                 BoundOrDefault(searchParams.offset, 0))

\* The request supplies none of q, genres, ratings, yearMin, yearMax.
NoFilterSupplied ==
    /\ IsNull(searchParams.q) /\ IsNull(searchParams.genres)
    /\ IsNull(searchParams.ratings)
    /\ IsNull(searchParams.yearMin) /\ IsNull(searchParams.yearMax)

\* C13: a request without any filter parameter has the full catalog as its
\* result set: total is the number of rows of table movies whatever their
\* release dates, and the page is in the standard ordering.
C13_NoFilterFullCatalog ==
    (Answered /\ NoFilterSupplied) =>
        /\ response.body.total = Cardinality(DOMAIN movies)
        /\ PageIds \subseteq DOMAIN movies
        /\ WholeResult => PageIds = DOMAIN movies
        /\ C6_PageOrdered

\* The parameter is present with the empty string as its value.
EmptyValue(p) == p = Some(<<>>)

\* The result set of the request with its empty genres and ratings parameters
\* taken away.
WithoutEmptyLists ==
    { id \in DOMAIN movies :
        /\ PassesText(id)
        /\ EmptyValue(searchParams.genres) \/ PassesGenres(id)
        /\ EmptyValue(searchParams.ratings) \/ PassesRatings(id)
        /\ PassesYears(id) }

\* C14: genres= and ratings= with an empty value impose no constraint: the
\* request returns the movies and the total of the same request without that
\* parameter.
C14_EmptyListNoConstraint ==
    ( /\ Answered
      /\ EmptyValue(searchParams.genres) \/ EmptyValue(searchParams.ratings)
      /\ ~IsNaN(ParseInt(yearMin)) /\ ~IsNaN(ParseInt(yearMax)) )
    => /\ response.body.total = Cardinality(WithoutEmptyLists)
       /\ PageIds \subseteq WithoutEmptyLists
       /\ WholeResult => PageIds = WithoutEmptyLists

----------------------------------------------------------------------------
\* The trailer endpoint as the interface states it.

TrailerAnswered == tpc = "done" /\ trailerResponse.status = 200

\* The provider was called and answered ok with a body that could be read.
ProviderAnswered ==
    tpc = "done" /\ Len(fetched) = 1 /\ fetched[1].outcome.kind = "ok"

\* The video list the provider returned, empty when it returned none.
ProvidedVideos ==
    LET results == fetched[1].outcome.data.results IN
    IF IsNull(results) THEN <<>> ELSE Val(results)

OnPlatformTrailer(v) == v.site = "YouTube" /\ v.type = "Trailer"
OfficialOnPlatformTrailer(v) == OnPlatformTrailer(v) /\ v.official

\* The response's trailerUrl is the watch address of the video at place i.
SelectedAt(i) ==
    trailerResponse.body.trailerUrl
        = Some(<<"https://www.youtube.com/watch?v=", ProvidedVideos[i].key>>)

\* C15: from the provider's list the endpoint selects the first official
\* YouTube trailer in list order when there is one, also behind a non-official
\* YouTube trailer; otherwise the first YouTube trailer; never a video of
\* another site or type.
C15_TwoTierSelection ==
    ProviderAnswered =>
        LET vs == ProvidedVideos
            officials == { i \in DOMAIN vs : OfficialOnPlatformTrailer(vs[i]) }
            trailers == { i \in DOMAIN vs : OnPlatformTrailer(vs[i]) }
        IN  /\ officials # {} =>
                  \E i \in officials : SelectedAt(i) /\ \A j \in officials : i <= j
            /\ (officials = {} /\ trailers # {}) =>
                  \E i \in trailers : SelectedAt(i) /\ \A j \in trailers : i <= j
            /\ ~IsNull(trailerResponse.body.trailerUrl) =>
                  \E i \in trailers : SelectedAt(i)

\* C15 witness: a non-official YouTube trailer comes before an official one and
\* behind a video of another site, and the official one is selected.
C15_Witness ==
    /\ ProviderAnswered
    /\ Len(ProvidedVideos) = 3
    /\ ~OnPlatformTrailer(ProvidedVideos[1])
    /\ OnPlatformTrailer(ProvidedVideos[2]) /\ ~ProvidedVideos[2].official
    /\ OfficialOnPlatformTrailer(ProvidedVideos[3])
    /\ SelectedAt(3)

\* C16: when the provider answers ok and no video qualifies (no results, an
\* empty list, or no YouTube trailer in it), the endpoint answers 200 with
\* {trailerUrl: null, found: false}; in every 200 response found is true
\* exactly when trailerUrl is not null.
C16_NotFoundIsSuccess ==
    /\ TrailerAnswered =>
          (trailerResponse.body.found <=> ~IsNull(trailerResponse.body.trailerUrl))
    /\ ( /\ ProviderAnswered
         /\ \A i \in DOMAIN ProvidedVideos : ~OnPlatformTrailer(ProvidedVideos[i]) )
       => trailerResponse = [status |-> 200,
                             body |-> [trailerUrl |-> Null, found |-> FALSE]]

\* C16 witness: the provider lists videos, none of them a YouTube trailer, and
\* the endpoint answers not found.
C16_Witness ==
    /\ ProviderAnswered
    /\ Len(ProvidedVideos) >= 2
    /\ \A i \in DOMAIN ProvidedVideos : ~OnPlatformTrailer(ProvidedVideos[i])
    /\ \E i \in DOMAIN ProvidedVideos : ProvidedVideos[i].site = "YouTube"
    /\ \E i \in DOMAIN ProvidedVideos : ProvidedVideos[i].type = "Trailer"
    /\ trailerResponse.body.found = FALSE

\* The parameter or the credential is not there: unset or empty.
Missing(o) == IsNull(o) \/ Val(o) = ""

\* The provider call failed: it threw, answered not ok, or its body could not
\* be read.
ProviderFailed ==
    /\ Len(fetched) = 1
    /\ fetched[1].outcome.kind \in {"threw", "status", "body"}

\* C17: the trailer endpoint answers 400 with an error when tmdbId is missing,
\* with or without the credential; 500 with an error when tmdbId is there and
\* the credential is missing; 500 with another error message when the provider
\* call fails or answers not ok; in the first two cases the provider is not
\* called.
C17_TrailerFailureStatuses ==
    tpc = "done" =>
        /\ Missing(tmdbId) =>
              /\ trailerResponse.status = 400
              /\ DOMAIN trailerResponse.body = {"error"}
              /\ fetched = <<>>
        /\ (~Missing(tmdbId) /\ Missing(tmdbApiKey)) =>
              /\ trailerResponse.status = 500
              /\ DOMAIN trailerResponse.body = {"error"}
              /\ trailerResponse.body.error # "Failed to fetch trailer"
              /\ fetched = <<>>
        /\ ProviderFailed =>
              /\ trailerResponse.status = 500
              /\ DOMAIN trailerResponse.body = {"error"}
              /\ trailerResponse.body.error # "TMDB API key not configured"

\* C17 witness: tmdbId is missing while the credential is configured, and the
\* answer is 400.
C17_Witness ==
    /\ tpc = "done"
    /\ IsNull(tmdbId)
    /\ ~Missing(tmdbApiKey)
    /\ trailerResponse.status = 400

\* C18: no endpoint retries: a trailer request calls the provider at most
\* once; a catalog request issues each of probe, count and page at most once;
\* a failed call is the last call of its request, and the request is answered
\* with the failure.
C18_NoRetry ==
    /\ Len(fetched) <= 1
    /\ \A i, j \in DOMAIN calls : i # j => calls[i].stmt # calls[j].stmt
    /\ \A i \in DOMAIN calls :
          calls[i].result = "error" =>
              i = Len(calls) /\ pc = "done" /\ response.status = 500
    /\ ProviderFailed => (tpc = "done" /\ trailerResponse.status = 500)

\* C18 witness: the probe succeeded, the count statement failed, and the
\* request ended with two calls made.
C18_Witness ==
    /\ pc = "done"
    /\ Len(calls) = 2
    /\ calls[1].result = "ok" /\ calls[2].result = "error"
    /\ response.status = 500

\* C19: the body of a failure response is fixed by the step that failed: one
\* of the literal messages, whatever error was thrown and whatever the
\* statement and the request's parameters were.
C19_FailureBodyFixedByStep ==
    /\ (pc = "done" /\ response.status # 200) =>
          response.body =
              IF calls[1].result = "error"
              THEN [error |-> "Database connection failed", movies |-> <<>>, total |-> 0]
              ELSE [error |-> "Internal server error", movies |-> <<>>, total |-> 0]
    /\ (tpc = "done" /\ trailerResponse.status # 200) =>
          trailerResponse.body =
              IF Missing(tmdbId) THEN [error |-> "TMDB ID is required"]
              ELSE IF Missing(tmdbApiKey) THEN [error |-> "TMDB API key not configured"]
              ELSE [error |-> "Failed to fetch trailer"]

\* C19 witness: the provider answered 404, the error thrown for it names the
\* status and was logged, and the request was answered with a failure.
C19_Witness ==
    /\ tpc = "done"
    /\ ProviderFailed
    /\ fetched[1].outcome = [kind |-> "status", status |-> 404]
    /\ logged = << <<"Error fetching trailer:", "TMDB API responded with status: 404">> >>
    /\ trailerResponse.status = 500

\* C20: every success response of the catalog endpoint has the fields movies,
\* total, limit and offset, and limit and offset are the values the request
\* was evaluated with.
C20_SuccessEchoesWindow ==
    Answered =>
        /\ {"movies", "total", "limit", "offset"} \subseteq DOMAIN response.body
        /\ response.body.limit = Val(limit)
        /\ response.body.offset = Val(offset)

----------------------------------------------------------------------------
\* Search by genre, and the placeholders of the two statements.

\* The movies linked to the genre whose name the query is, and passing the
\* other filters of the request.
InQueriedGenre ==
    { id \in DOMAIN movies :
        /\ query \in MovieGenreNames(id)
        /\ PassesGenres(id) /\ PassesRatings(id) /\ PassesYears(id) }

\* C21: the text search also matches genres: for q the name of a genre, every
\* movie linked to that genre is in the result set, also when q is in neither
\* its title nor its overview.
C21_SearchMatchesGenres ==
    (Answered /\ \E g \in genresTable : g.name = query) =>
        /\ response.body.total >= Cardinality(InQueriedGenre)
        /\ WholeResult => InQueriedGenre \subseteq PageIds

\* The values the request's filters bind, in the order of the clauses.
FilterValues ==
    (IF query # <<>> THEN << <<"%">> \o query \o <<"%">> >> ELSE <<>>)
        \o genres \o ratings \o <<ParseInt(yearMin), ParseInt(yearMax)>>

\* The kinds of the clauses the request's filters call for, in order.
FilterKinds ==
    (IF query # <<>> THEN <<"search">> ELSE <<>>)
        \o (IF genres # <<>> THEN <<"genre">> ELSE <<>>)
        \o (IF ratings # <<>> THEN <<"rating">> ELSE <<>>)
        \o <<"yearMin", "yearMax">>

\* The values the placeholders of a clause refer to.
BoundTo(cond) == [i \in 1..Len(cond.at) |-> params[cond.at[i]]]

\* The values a clause of that kind is meant to be compared with.
MeantFor(kind) ==
    CASE kind = "search" -> << <<"%">> \o query \o <<"%">>, <<"%">> \o query \o <<"%">> >>
      [] kind = "genre" -> genres
      [] kind = "rating" -> ratings
      [] kind = "yearMin" -> <<ParseInt(yearMin)>>
      [] kind = "yearMax" -> <<ParseInt(yearMax)>>

\* The positions a clause of that kind is meant to refer to: the values are
\* bound in the order search pattern, genres, ratings, yearMin, yearMax.
MeantAt(kind) ==
    LET s == IF query # <<>> THEN 1 ELSE 0
        g == Len(genres)
        r == Len(ratings)
    IN  CASE kind = "search" -> <<1, 1>>
          [] kind = "genre" -> [k \in 1..g |-> s + k]
          [] kind = "rating" -> [k \in 1..r |-> s + g + k]
          [] kind = "yearMin" -> <<s + g + r + 1>>
          [] kind = "yearMax" -> <<s + g + r + 2>>

\* C22: for every combination of filters the count and the page statement
\* carry the same conditions, each placeholder refers to the value meant for
\* it (search pattern, genres, ratings, yearMin, yearMax, and limit and offset
\* in the page statement only), and the count statement runs with the filter
\* values and no pagination value.
C22_PlaceholdersAligned ==
    (pc \in {"count", "page"}) =>
        /\ sql.conds = countSql.conds
        /\ [i \in 1..Len(countSql.conds) |-> countSql.conds[i].kind] = FilterKinds
        /\ \A i \in 1..Len(countSql.conds) :
              /\ \A k \in 1..Len(countSql.conds[i].at) :
                    countSql.conds[i].at[k] \in 1..Len(params)
              /\ countSql.conds[i].at = MeantAt(countSql.conds[i].kind)
              /\ BoundTo(countSql.conds[i]) = MeantFor(countSql.conds[i].kind)
        /\ pc = "count" => (params = FilterValues /\ IsNull(sql.page))
        /\ pc = "page" =>
              /\ params = FilterValues \o <<limit, offset>>
              /\ ~IsNull(sql.page)
              /\ Val(sql.page).limitAt = Len(FilterValues) + 1
              /\ Val(sql.page).offsetAt = Len(FilterValues) + 2
              /\ params[Val(sql.page).limitAt] = limit
              /\ params[Val(sql.page).offsetAt] = offset

\* C22 witness: the page statement of a request with a text, two genres and
\* two ratings has been issued.
C22_Witness ==
    /\ pc = "page"
    /\ query # <<>>
    /\ Len(genres) = 2
    /\ Len(ratings) = 2
    /\ Len(params) = 9

----------------------------------------------------------------------------
\* The filter controls.

C26_ClearIsFinal ==
    /\ cleared # "none" => yearRange = DefaultYearRange
    /\ cleared = "title" => searchQuery = <<>>

\* C29: localYearRange and every range passed to onYearRangeChange satisfy
\* 1900 <= min <= max <= 2024 after any sequence of text edits, blurs, slider
\* clicks and clears, and a text that is not a number, or is a number outside
\* [1900, 2024], changes neither localYearRange nor the range to be emitted.
InBounds(r) == 1900 <= r[1] /\ r[1] <= r[2] /\ r[2] <= 2024

\* The text is a number: digits only, at least one.
IsNumeral(text) == text # <<>> /\ \A i \in 1..Len(text) : IsDigit(text[i])

Rejectable(text) == ~IsNumeral(text) \/ ~ValidYear(ParseInt(text))

C29_YearInputsValidated ==
    [][ /\ InBounds(localYearRange')
        /\ InBounds(yearRange')
        /\ \A t \in timers' : InBounds(t.range)
        /\ \A index \in 1..2 : \A value \in YearTexts :
              (Rejectable(value) /\ YearInputChange(index, value)) =>
                  (localYearRange' = localYearRange /\ timers' = timers)
      ]_vars

----------------------------------------------------------------------------
\* MovieGrid.

\* The ids of the movies the endpoint selects for the filters f.
ResultIds(f) ==
    LET sp == GridParams(f, 0)
        b == BuildWhere(OrDefault(sp.q, <<>>), SplitOrEmpty(sp.genres),
                        SplitOrEmpty(sp.ratings), OrDefault(sp.yearMin, s1900),
                        OrDefault(sp.yearMax, s2024))
    IN  { row.m.id : row \in SelectedRows(b.conds, b.params, movies, movie_genres) }

\* C24: infinite scroll terminates and is complete.  With the filters fixed,
\* every request answered and load-more asked for whenever hasMore is true,
\* once hasMore is false MovieGrid has sent at most ceil(total / page size) + 1
\* requests and shows the full ordered result set of the filters, each
\* matching movie once.
CeilDiv(n, d) == (n + d - 1) \div d

FullResults(f) ==
    { data.movies :
        data \in HandlerAnswers([GridParams(f, 0) EXCEPT !.limit = Null, !.offset = Null],
                                movies, movie_genres) }

C24_ScrollComplete ==
    (inFlight = <<>> /\ ~hasMore) =>
        /\ fetchCount <= CeilDiv(gridTotal, ITEMS_PER_PAGE) + 1
        /\ gridMovies \in FullResults(CurrentFilters)

\* C25: MovieGrid never shows results of superseded filters.  Once every
\* request in flight has completed, the movies shown and the total are those
\* of the current filters (or none, after a failure).
C25_NoSupersededResults ==
    inFlight = <<>> =>
        /\ IdsOf(gridMovies) \subseteq ResultIds(CurrentFilters)
        /\ gridTotal \in {0, Cardinality(ResultIds(CurrentFilters))}

\* C27: in every state of MovieGrid, under any interleaving of initial loads,
\* load-more requests (two for the same page among them) and filter resets,
\* the list shown holds no two entries with the same id.
C27_NoDuplicateIds ==
    \A i, j \in 1..Len(gridMovies) : i # j => gridMovies[i].id # gridMovies[j].id

\* C27 witness: a page has been appended to a list of more than one page while
\* a second request for that same page is still on its way.
C27_Witness ==
    /\ lastEvent = "appended"
    /\ Len(gridMovies) > ITEMS_PER_PAGE
    /\ \E i \in 1..Len(inFlight) :
          /\ inFlight[i].append
          /\ inFlight[i].page = currentPage
          /\ inFlight[i].filters = CurrentFilters

\* C28: a failed load-more request leaves the movies shown, total,
\* currentPage and hasMore as they were and clears both loading flags, so the
\* next scroll asks for the same page again; a failed initial load empties the
\* list.
C28_FailedLoadKeepsList ==
    [][ \A i \in 1..MaxInFlight :
          RespondFail(i) =>
              IF inFlight[i].append
              THEN /\ gridMovies' = gridMovies
                   /\ gridTotal' = gridTotal
                   /\ currentPage' = currentPage
                   /\ hasMore' = hasMore
                   /\ ~loading'
                   /\ ~loadingMore'
              ELSE gridMovies' = <<>>
      ]_vars

\* C28 witness: a load-more request has just failed under a list that is not
\* empty, and the next scroll is free to ask again.
C28_Witness ==
    /\ lastEvent = "failedAppend"
    /\ gridMovies # <<>>
    /\ hasMore
    /\ ~loadingMore

\* C30: every field the client reads from a movie record delivered by
\* GET /api/movies is in the record under that name, so a movie with a stored
\* poster path is shown with that poster and not with the placeholder.
ClientReads == { "poster_path", "release_date", "vote_average", "tmdb_id" }

C30_ClientFieldsPresent ==
    \A i \in 1..Len(gridMovies) :
        /\ ClientReads \subseteq DOMAIN gridMovies[i]
        /\ ~IsNull(movies[gridMovies[i].id].poster_path) =>
              PosterUrl(gridMovies[i]) =
                  ImageUrl(Val(movies[gridMovies[i].id].poster_path))

====
